---- MODULE Spec2Model ----
(***************************************************************************)
(* The lines-renderer worker of the map view                               *)
(* (src/src/views/map/worker-linesrenderer.ts): topology ingestion, the    *)
(* render pipeline and the worker's message protocol.                      *)
(*                                                                         *)
(* Representation.                                                         *)
(*  - A colour string '#RRGGBB' is the tuple of its six hex digits, so     *)
(*    that String.substring and parseInt(.., 16) can be computed.  String  *)
(*    index k >= 1 is digit k of the tuple; index 0 is the '#'.            *)
(*  - A coordinate is a pair of integers (degrees).                        *)
(*  - The numeric geometry of the turf library (offsetting, slicing,       *)
(*    smoothing) is not computed: a derived coordinate is a token that     *)
(*    names the segment, the offset index, the clipping stage and the end  *)
(*    of the line it is taken from.                                        *)
(*  - A Map is a sequence in insertion order (LineSegments: 'Segment:i' is *)
(*    element i+1; RenderedColourLine: entries [color, lines];             *)
(*    ColourSegmentsEndpoints: entries [key, value]).                      *)
(***************************************************************************)
EXTENDS Integers, Sequences, FiniteSets, TLC

VARIABLES
  LineSegments,            \* this.LineSegments
  LineConnections,         \* this.LineConnections
  ColourSegmentsEndpoints, \* renderLines' registry, as the last call since the last init left it
  RenderedColourLine,      \* renderLines' per-colour lines, likewise
  outbox,                  \* types of the messages posted while handling that message
  loading,                 \* add_loading_item minus remove_loading_item posted so far
  faulted,                 \* the last handler ended in an uncaught exception
  inited,                  \* some init message has been handled
  lastMsg,                 \* type of the last init or request_render message
  lastTopo,                \* payload of the last init message
  lastRender               \* spacing and viewbox of the last renderLines call

vars == <<LineSegments, LineConnections, ColourSegmentsEndpoints, RenderedColourLine,
          outbox, loading, faulted, inited, lastMsg, lastTopo, lastRender>>

----------------------------------------------------------------------------
(* Bounds of the inputs *)

\* routes per topology
MaxRoutes == 2
\* arc references per topology (all routes together), runs of one init
MaxRefs == 4
\* the same, for a topology that is rendered
RenderMaxRefs == 3
\* the same, for the topologies of arbitrary message sequences
SeqMaxRefs == 2
\* cap on the loading counter (it grows with every faulting handler)
MaxLoading == 1

Black == <<0, 0, 0, 0, 0, 0>>
Red   == <<15, 15, 0, 0, 0, 0>>
Green == <<0, 0, 15, 15, 0, 0>>

\* strokes of the routes
Palette == {Red, Green}

\* signed arc references: arc 0 forward and reversed, arc 1 forward
Refs == {-1, 0, 1}

\* ArcA runs away from the origin, ArcB towards it
ArcA == << <<0, 0>>, <<2, 2>> >>
ArcB == << <<4, 4>>, <<2, 2>> >>

\* arc tables; with one arc, a reference to arc 1 has no entry
ArcTables == { <<ArcA>>, <<ArcB, ArcA>> }

RECURSIVE Sum(_, _)
Sum(lens, n) == IF n = 0 THEN 0 ELSE lens[n] + Sum(lens, n - 1)

\* the routes with arcs lists of the lengths lens, strokes strokes and the
\* references refs, one route after the other
Routes(lens, strokes, refs) ==
  [ r \in 1..Len(lens) |->
      [arcs   |-> [k \in 1..lens[r] |-> refs[Sum(lens, r - 1) + k]],
       stroke |-> strokes[r]] ]

NoTopology == [geometries |-> <<>>, arcs |-> <<>>]
NoRender == [spacing |-> 0, viewbox |-> <<>>]

----------------------------------------------------------------------------
(* extractLineConnections *)

FromId(prev)   == IF prev < 0 THEN prev * (-1) - 1 ELSE prev
FromPart(prev) == IF prev < 0 THEN "top" ELSE "bottom"
ToId(cur)      == IF cur < 0 THEN cur * (-1) - 1 ELSE cur
ToPartSwapped(cur) == IF cur < 0 THEN "top" ELSE "bottom"
ToPart(cur)    == IF cur < 0 THEN "bottom" ELSE "top"

DedupeStringNoStroke(stroke, fromId, fromPart, toId, toPart) ==
  <<Black, fromId, fromPart, toId, toPart>>

\* [stroke, fromId, fromPart, toId, toPart].join(':')
DedupeString(stroke, fromId, fromPart, toId, toPart) ==
  <<stroke, fromId, fromPart, toId, toPart>>

\* the reduce callback on (prev, cur) = (arcs[k-1], arcs[k]); st = [Connections, ConnectionsDedupe]
ReduceStep(st, stroke, prev, cur) ==
  LET key == DedupeString(stroke, FromId(prev), FromPart(prev), ToId(cur), ToPart(cur))
  IN  IF key \in st.ConnectionsDedupe
      THEN st
      ELSE [Connections |-> Append(st.Connections,
                                   [from  |-> <<FromId(prev), FromPart(prev)>>,
                                    to    |-> <<ToId(cur), ToPart(cur)>>,
                                    color |-> stroke]),
            ConnectionsDedupe |-> st.ConnectionsDedupe \cup {key}]

\* line.arcs.reduce(callback) without an initial value, on a non-empty array:
\* the callback runs on the adjacent pairs from index k on
RECURSIVE ReduceArcs(_, _, _)
ReduceArcs(st, line, k) ==
  IF k > Len(line.arcs) THEN st
  ELSE ReduceArcs(ReduceStep(st, line.stroke, line.arcs[k - 1], line.arcs[k]), line, k + 1)

\* Array.prototype.reduce throws a TypeError on an empty array with no initial value
ReduceThrows(line) == Len(line.arcs) = 0

\* the for-of loop over the routes from route n on; the result carries `threw`
RECURSIVE ConnectionsLoop(_, _, _)
ConnectionsLoop(st, geometries, n) ==
  IF n > Len(geometries) THEN [threw |-> FALSE, value |-> st.Connections]
  ELSE IF ReduceThrows(geometries[n]) THEN [threw |-> TRUE, value |-> <<>>]
  ELSE ConnectionsLoop(ReduceArcs(st, geometries[n], 2), geometries, n + 1)

extractLineConnections(TopoJsonLines) ==
  ConnectionsLoop([Connections |-> <<>>, ConnectionsDedupe |-> {}],
                  TopoJsonLines.geometries, 1)

----------------------------------------------------------------------------
(* ExtractLineSegments *)

Includes(arr, x) == \E k \in 1..Len(arr) : arr[k] = x

\* line.properties.stroke || '#000000'
StrokeOrDefault(stroke) == IF stroke = <<>> THEN Black ELSE stroke

\* the test of line 83; i runs from 0, so the i < 0 branch is never taken
SegmentTest(line, i) ==
  IF i < 0 THEN Includes(line.arcs, i * (-1) - 1) ELSE Includes(line.arcs, i)

\* [...new Set(geometries.map(..))].filter(e => e != null): the strokes of the
\* matching routes from route n on, in order of first occurrence
RECURSIVE ColorsInSegment(_, _, _, _)
ColorsInSegment(acc, geometries, i, n) ==
  IF n > Len(geometries) THEN acc
  ELSE LET c == StrokeOrDefault(geometries[n].stroke)
       IN  ColorsInSegment(
             IF SegmentTest(geometries[n], i) /\ ~Includes(acc, c) THEN Append(acc, c) ELSE acc,
             geometries, i, n + 1)

ExtractLineSegments(TopoJsonLines) ==
  [ s \in 1..Len(TopoJsonLines.arcs) |->
      LET arc == TopoJsonLines.arcs[s]
      IN  [geometry |-> arc,
           top      |-> arc[1],
           bottom   |-> arc[Len(arc)],
           colors   |-> ColorsInSegment(<<>>, TopoJsonLines.geometries, s - 1, 1)] ]

----------------------------------------------------------------------------
(* The worker *)

Init ==
  /\ LineSegments = <<>>
  /\ LineConnections = <<>>
  /\ ColourSegmentsEndpoints = <<>>
  /\ RenderedColourLine = <<>>
  /\ outbox = <<>>
  /\ loading = 0
  /\ faulted = FALSE
  /\ inited = FALSE
  /\ lastMsg = "none"
  /\ lastTopo = NoTopology
  /\ lastRender = NoRender

\* message_init -> processTopologies, then postMessage finished_init
message_init(data) ==
  \E line_connections \in { extractLineConnections(data) } :
      /\ lastMsg' = "init"
      /\ lastTopo' = data
      /\ inited' = TRUE
      /\ IF line_connections.threw
         THEN /\ LineSegments' = <<>>
              /\ LineConnections' = <<>>
              /\ outbox' = <<"add_loading_item">>
              /\ loading' = loading + 1
              /\ faulted' = TRUE
         ELSE /\ LineSegments' = ExtractLineSegments(data)
              /\ LineConnections' = line_connections.value
              /\ outbox' = <<"add_loading_item", "remove_loading_item", "finished_init">>
              /\ loading' = loading
              /\ faulted' = FALSE
      \* the maps of an earlier renderLines call are gone with that call
      /\ ColourSegmentsEndpoints' = <<>>
      /\ RenderedColourLine' = <<>>
      /\ lastRender' = NoRender

----------------------------------------------------------------------------
(* ScaleSpacing and the clamp of renderLines.  A spacing is an integer number *)
(* of units of 1 / SpacingScale degrees; a width is an integer; a zoom is     *)
(* given in thousandths.                                                      *)

SpacingScale == 100000 * 256

Max(a, b) == IF a > b THEN a ELSE b
Min(a, b) == IF a < b THEN a ELSE b

\* Math.round(zoom * 100) / 100, in hundredths
RoundZoom(zoom) == (zoom + 5) \div 10

\* (0.025 w^2 - 0.04 w + 0.1) / 2^(z - 10), for a z that rounds to a whole level
ScaleSpacing(width, zoom) ==
  LET w == Max(1, width)
      z == RoundZoom(zoom)
      numerator == (25 * w * w - 40 * w + 100) * (SpacingScale \div 1000)
      e == (z - 1000) \div 100
  IN  IF e >= 0 THEN numerator \div (2 ^ e) ELSE numerator * (2 ^ (0 - e))

\* Math.max(0.00005, Math.min(0.3, RequestedSpacing))
ClampSpacing(RequestedSpacing) ==
  Max(5 * (SpacingScale \div 100000), Min(3 * (SpacingScale \div 10), RequestedSpacing))

\* spacing < 0.007
FlagsShouldSmooth(spacing) == spacing < 7 * (SpacingScale \div 1000)
\* spacing < 0.11
FlagsShouldSmoothCoords(spacing) == spacing < 11 * (SpacingScale \div 100)

----------------------------------------------------------------------------
(* The viewport filter: booleanIntersects(polygon([viewbox]), lineString).  *)
(* The viewboxes are rings of axis-aligned rectangles, for which the test   *)
(* is exact in integers: a line meets the rectangle iff one of its edges    *)
(* does.                                                                    *)

RECURSIVE MinOver(_, _, _)
MinOver(ring, c, k) ==
  IF k = Len(ring) THEN ring[k][c] ELSE Min(ring[k][c], MinOver(ring, c, k + 1))
RECURSIVE MaxOver(_, _, _)
MaxOver(ring, c, k) ==
  IF k = Len(ring) THEN ring[k][c] ELSE Max(ring[k][c], MaxOver(ring, c, k + 1))

\* side of corner c with respect to the line through p and q
Cross(p, q, c) == (q[1] - p[1]) * (c[2] - p[2]) - (q[2] - p[2]) * (c[1] - p[1])

EdgeMeetsBox(p, q, x0, x1, y0, y1) ==
  LET corners == { <<x0, y0>>, <<x0, y1>>, <<x1, y0>>, <<x1, y1>> }
  IN  /\ Max(p[1], q[1]) >= x0 /\ Min(p[1], q[1]) <= x1
      /\ Max(p[2], q[2]) >= y0 /\ Min(p[2], q[2]) <= y1
      /\ ~(\A c \in corners : Cross(p, q, c) > 0)
      /\ ~(\A c \in corners : Cross(p, q, c) < 0)

booleanIntersectsAlways(viewbox, geometry) == TRUE

booleanIntersects(viewbox, geometry) ==
  \E k \in 1..(Len(geometry) - 1) :
     EdgeMeetsBox(geometry[k], geometry[k + 1],
                  MinOver(viewbox, 1, 1), MaxOver(viewbox, 1, 1),
                  MinOver(viewbox, 2, 1), MaxOver(viewbox, 2, 1))

\* distance([0, 0], c): great-circle distances from the origin, compared.  On the
\* coordinates of the arc tables (a few degrees) their order is that of the
\* squared Euclidean norms.
DistanceFromOrigin(c) == c[1] * c[1] + c[2] * c[2]

shouldReverseColor(segment) ==
  DistanceFromOrigin(segment.geometry[1]) >
  DistanceFromOrigin(segment.geometry[Len(segment.geometry)])

----------------------------------------------------------------------------
(* The colour sort of renderLines *)

\* a.substring(start, end): the arguments are swapped when start > end; the
\* characters at string indices [lo, hi), lo >= 1
Substring(a, start, end) ==
  LET lo == Min(start, end)
      hi == Min(Max(start, end), Len(a) + 1)
  IN  [k \in 1..(hi - lo) |-> a[lo + k - 1]]

RECURSIVE ParseInt16(_)
ParseInt16(ds) ==
  IF Len(ds) = 0 THEN 0 ELSE 16 * ParseInt16(SubSeq(ds, 1, Len(ds) - 1)) + ds[Len(ds)]

\* Math.pow(v / 255, 2.2) in millionths, rounded, on the values the palette yields
Pow22(v) ==
  CASE v = 0    -> 0
    [] v = 15   -> 1963
    [] v = 255  -> 1000000
    [] v = 3840 -> 390067976
    [] v = 4095 -> 449334946

\* (w / 10000) * (p / 1000000) in units of 10^-7, without leaving 32 bits
Weighted(w, p) == w * (p \div 1000) + (w * (p % 1000)) \div 1000

\* luminosityA / luminosityB of the comparator, as the code computes it
Luminosity(a) ==
  Weighted(2126, Pow22(ParseInt16(Substring(a, 1, 2)))) +
  Weighted(7152, Pow22(ParseInt16(Substring(a, 3, 2)))) +
  Weighted(722,  Pow22(ParseInt16(Substring(a, 5, 2))))

\* Array.prototype.sort is stable: c goes behind the elements that do not compare greater
InsertSorted(sorted, c) ==
  LET p == Cardinality({ k \in 1..Len(sorted) : Luminosity(sorted[k]) <= Luminosity(c) })
  IN  SubSeq(sorted, 1, p) \o <<c>> \o SubSeq(sorted, p + 1, Len(sorted))

RECURSIVE SortFrom(_, _, _)
SortFrom(sorted, arr, k) ==
  IF k > Len(arr) THEN sorted ELSE SortFrom(InsertSorted(sorted, arr[k]), arr, k + 1)

\* segment.colors.sort((a, b) => luminosityA - luminosityB)
SortColors(colors) == SortFrom(<<>>, colors, 1)

Reverse(arr) == [k \in 1..Len(arr) |-> arr[Len(arr) + 1 - k]]

----------------------------------------------------------------------------
(* renderLines *)

\* a coordinate of one of the lines derived from segment id for offset index
\* i: line is "processed", "clipped_offset" or "buffer"; end is "first" or "last"
Coord(id, i, lineoffset, line, end) ==
  [segment |-> id, index |-> i, lineoffset |-> lineoffset, line |-> line, end |-> end]

Undefined == Coord(-1, -1, 0, "undefined", "undefined")

\* Map.has, Map.set and Map.get on a map kept as its entries [key, value] in
\* insertion order; get of a missing key is undefined
MapHas(m, k) == \E n \in 1..Len(m) : m[n].key = k
MapSet(m, k, v) ==
  IF MapHas(m, k)
  THEN [n \in 1..Len(m) |-> IF m[n].key = k THEN [key |-> k, value |-> v] ELSE m[n]]
  ELSE Append(m, [key |-> k, value |-> v])
MapGet(m, k) ==
  IF MapHas(m, k) THEN m[CHOOSE n \in 1..Len(m) : m[n].key = k].value ELSE Undefined

\* `${segment_id}:${color}:${tag}` with an optional `:${variant}`
EndpointKey(id, color, tag, variant) == <<id, color, tag, variant>>

HasColor(lines, color) == \E k \in 1..Len(lines) : lines[k].color = color

\* RenderedColourLine.get(color).push(line), or .set(color, [line])
PushLine(lines, color, line) ==
  IF HasColor(lines, color)
  THEN [k \in 1..Len(lines) |->
          IF lines[k].color = color
          THEN [color |-> color, lines |-> Append(lines[k].lines, line)]
          ELSE lines[k]]
  ELSE Append(lines, [color |-> color, lines |-> <<line>>])

\* the body of the loop over i (lines 230-281); acc = [endpoints, lines]
RenderColor(acc, id, colors, i, totallines, spacing) ==
  LET color == colors[i + 1]
      lineoffset == (2 * i - (totallines - 1)) * spacing
      line_processed ==
        [kind |-> "offset_line",
         coords |-> << Coord(id, i, lineoffset, "processed", "first"),
                       Coord(id, i, lineoffset, "processed", "last") >>,
         smoothed |-> FlagsShouldSmooth(spacing)]
      e1 == MapSet(acc.endpoints, EndpointKey(id, color, "top", "none"),
                   line_processed.coords[1])
      e2 == MapSet(e1, EndpointKey(id, color, "top", "invasive"),
                   Coord(id, i, lineoffset, "clipped_offset", "first"))
      e3 == MapSet(e2, EndpointKey(id, color, "top", "buffer"),
                   Coord(id, i, lineoffset, "buffer", "first"))
      e4 == MapSet(e3, EndpointKey(id, color, "bottom", "none"),
                   line_processed.coords[Len(line_processed.coords)])
      e5 == MapSet(e4, EndpointKey(id, color, "bottom", "invasive"),
                   Coord(id, i, lineoffset, "clipped_offset", "last"))
      e6 == MapSet(e5, EndpointKey(id, color, "bottom", "buffer"),
                   Coord(id, i, lineoffset, "buffer", "last"))
  IN  [endpoints |-> e6, lines |-> PushLine(acc.lines, color, line_processed)]

RECURSIVE RenderColors(_, _, _, _, _, _)
RenderColors(acc, id, colors, i, totallines, spacing) ==
  IF i >= totallines THEN acc
  ELSE RenderColors(RenderColor(acc, id, colors, i, totallines, spacing),
                    id, colors, i + 1, totallines, spacing)

\* the loop over this.LineSegments (lines 192-283) from segment s on;
\* acc = [segments, endpoints, lines], segments being this.LineSegments as the
\* in-place sort leaves it
RECURSIVE RenderSegments(_, _, _, _)
RenderSegments(acc, s, spacing, viewbox) ==
  IF s > Len(acc.segments) THEN acc
  ELSE LET segment == acc.segments[s]
       IN  IF ~booleanIntersects(viewbox, segment.geometry)
           THEN RenderSegments(acc, s + 1, spacing, viewbox)
           ELSE LET colors_sorted_by_luminosity == SortColors(segment.colors)
                    colors == IF shouldReverseColor(segment)
                              THEN Reverse(colors_sorted_by_luminosity)
                              ELSE colors_sorted_by_luminosity
                    drawn == RenderColors([endpoints |-> acc.endpoints, lines |-> acc.lines],
                                          s - 1, colors, 0, Len(segment.colors), spacing)
                IN  RenderSegments(
                      [segments  |-> [acc.segments EXCEPT ![s].colors = colors_sorted_by_luminosity],
                       endpoints |-> drawn.endpoints,
                       lines     |-> drawn.lines],
                      s + 1, spacing, viewbox)

\* the six lookups of lines 286-308
ConnectionCoords(endpoints, connection) ==
  << MapGet(endpoints, EndpointKey(connection.from[1], connection.color, connection.from[2], "none")),
     MapGet(endpoints, EndpointKey(connection.from[1], connection.color, connection.from[2], "buffer")),
     MapGet(endpoints, EndpointKey(connection.from[1], connection.color, connection.from[2], "invasive")),
     MapGet(endpoints, EndpointKey(connection.to[1], connection.color, connection.to[2], "invasive")),
     MapGet(endpoints, EndpointKey(connection.to[1], connection.color, connection.to[2], "buffer")),
     MapGet(endpoints, EndpointKey(connection.to[1], connection.color, connection.to[2], "none")) >>

ShouldStitchFromOnly(coords) == ~Includes(SubSeq(coords, 1, 3), Undefined)

\* !coords.includes(undefined)
ShouldStitch(coords) == ~Includes(coords, Undefined)

\* the loop over this.LineConnections (lines 285-315) from connection n on;
\* RenderedColourLine.get(color) of a colour without an entry is undefined,
\* and .push on it throws
RECURSIVE StitchConnections(_, _, _, _, _)
StitchConnections(lines, endpoints, connections, n, spacing) ==
  IF n > Len(connections) THEN [threw |-> FALSE, lines |-> lines]
  ELSE LET coords == ConnectionCoords(endpoints, connections[n])
       IN  IF ~ShouldStitch(coords)
           THEN StitchConnections(lines, endpoints, connections, n + 1, spacing)
           ELSE IF ~HasColor(lines, connections[n].color)
           THEN [threw |-> TRUE, lines |-> lines]
           ELSE StitchConnections(
                  PushLine(lines, connections[n].color,
                           [kind |-> "connection", coords |-> coords,
                            smoothed |-> FlagsShouldSmoothCoords(spacing)]),
                  endpoints, connections, n + 1, spacing)

\* featureCollection(rendered): one multiLineString per entry, in insertion order
FeatureCollection(lines) ==
  [k \in 1..Len(lines) |->
     [id |-> lines[k].color, stroke |-> lines[k].color, coordinates |-> lines[k].lines]]

\* message_request_render -> ScaleSpacing, renderLines, then postMessage rendered
\* renderLines up to the exception or the return: the state it leaves
renderLines(segments, connections, spacing, viewbox) ==
  LET drawn == RenderSegments([segments |-> segments, endpoints |-> <<>>, lines |-> <<>>],
                              1, spacing, viewbox)
      stitched == StitchConnections(drawn.lines, drawn.endpoints, connections, 1, spacing)
  IN  [segments |-> drawn.segments, endpoints |-> drawn.endpoints,
       lines |-> stitched.lines, threw |-> stitched.threw]

message_request_render(line_width, zoom, viewbox) ==
  \E spacing \in { ClampSpacing(ScaleSpacing(line_width, zoom)) } :
  \E call \in { renderLines(LineSegments, LineConnections, spacing, viewbox) } :
      /\ lastMsg' = "request_render"
      /\ lastRender' = [spacing |-> spacing, viewbox |-> viewbox]
      /\ LineSegments' = call.segments
      /\ ColourSegmentsEndpoints' = call.endpoints
      /\ RenderedColourLine' = call.lines
      /\ IF call.threw
         THEN /\ outbox' = <<"add_loading_item">>
              /\ loading' = loading + 1
              /\ faulted' = TRUE
         ELSE /\ outbox' = <<"add_loading_item", "remove_loading_item", "rendered">>
              /\ loading' = loading
              /\ faulted' = FALSE
      /\ UNCHANGED <<LineConnections, inited, lastTopo>>

\* the listener's implicit else: a message of any other type is dropped
message_other == UNCHANGED vars

----------------------------------------------------------------------------
(* Inbound messages *)

\* [width, zoom] of the render requests: spacing 0.34 (clamped to 0.3), 0.085
\* and 0.0053
Requests == { <<0, 8000>>, <<1, 10004>>, <<1, 13996>> }

Ring(x0, y0, x1, y1) == << <<x0, y0>>, <<x1, y0>>, <<x1, y1>>, <<x0, y1>>, <<x0, y0>> >>
\* a viewbox over both arcs, and one that ArcA alone meets
Viewboxes == { Ring(-1, -1, 5, 5), Ring(-1, -1, 1, 1) }

\* an init message with any topology of at most MaxRoutes routes and m arc
\* references
InitWith(m) ==
  \E n \in 0..MaxRoutes :
  \E lens \in [1..n -> 0..m] :
     /\ Sum(lens, n) <= m
     /\ \E strokes \in [1..n -> Palette] :
        \E refs \in [1..Sum(lens, n) -> Refs] :
        \E table \in ArcTables :
           message_init([geometries |-> Routes(lens, strokes, refs), arcs |-> table])

MessageInit == loading < MaxLoading /\ InitWith(SeqMaxRefs)

MessageRequestRender ==
  \E r \in Requests, v \in Viewboxes : message_request_render(r[1], r[2], v)

MessageOther == message_other

(* The worker under any sequence of inbound messages *)
Next == MessageInit \/ MessageRequestRender \/ MessageOther

Spec == Init /\ [][Next]_vars

(* One topology ingested by a fresh worker, then rendered any number of times *)
RenderInit == ~inited /\ InitWith(RenderMaxRefs)

RenderNext == RenderInit \/ (inited /\ MessageRequestRender)

SpecRender == Init /\ [][RenderNext]_vars

(* Ingestion of one topology by a fresh worker *)
ExtractNext == ~inited /\ InitWith(MaxRefs)

SpecExtract == Init /\ [][ExtractNext]_vars

----------------------------------------------------------------------------
(* Properties *)

SeqToSet(q) == { q[k] : k \in 1..Len(q) }

\* the directional derivation rule, as stated
ArcId(x)      == IF x >= 0 THEN x ELSE (0 - x) - 1
ExitTag(prev) == IF prev >= 0 THEN "bottom" ELSE "top"
EntryTag(cur) == IF cur >= 0 THEN "top" ELSE "bottom"
DerivedConnection(stroke, prev, cur) ==
  [from |-> <<ArcId(prev), ExitTag(prev)>>, to |-> <<ArcId(cur), EntryTag(cur)>>, color |-> stroke]

\* the adjacent pairs <<route, position>> of a topology
AdjacentPairs(topo) ==
  { rk \in (1..Len(topo.geometries)) \X (2..MaxRefs + 1) : rk[2] <= Len(topo.geometries[rk[1]].arcs) }
PairConnection(topo, rk) ==
  DerivedConnection(topo.geometries[rk[1]].stroke,
                    topo.geometries[rk[1]].arcs[rk[2] - 1], topo.geometries[rk[1]].arcs[rk[2]])
DerivedConnections(topo) == { PairConnection(topo, rk) : rk \in AdjacentPairs(topo) }

\* the last message was an init that ran to its end
Ingested == lastMsg = "init" /\ ~faulted
\* the last message was a request_render that ran to its end
Rendered == lastMsg = "request_render" /\ ~faulted

\* the geometry lies beyond one side of the viewbox
Outside(viewbox, geometry) ==
  \E c \in {1, 2} :
     \/ \A p \in SeqToSet(geometry), q \in SeqToSet(viewbox) : p[c] > q[c]
     \/ \A p \in SeqToSet(geometry), q \in SeqToSet(viewbox) : p[c] < q[c]
FilteredOut(id) ==
  id + 1 \in 1..Len(LineSegments) /\ Outside(lastRender.viewbox, LineSegments[id + 1].geometry)

LinesOf(color) ==
  IF HasColor(RenderedColourLine, color)
  THEN RenderedColourLine[CHOOSE k \in 1..Len(RenderedColourLine) :
                             RenderedColourLine[k].color = color].lines
  ELSE <<>>
AllLines == UNION { SeqToSet(RenderedColourLine[k].lines) : k \in 1..Len(RenderedColourLine) }

\* C1: while handling one init the worker posts exactly add_loading_item,
\* remove_loading_item, finished_init, and while handling one request_render
\* exactly add_loading_item, remove_loading_item, rendered; between messages
\* every add_loading_item has been matched by a remove_loading_item.
C1_LoadingItemsPaired ==
  /\ lastMsg = "init" =>
       outbox = <<"add_loading_item", "remove_loading_item", "finished_init">>
  /\ lastMsg = "request_render" =>
       outbox = <<"add_loading_item", "remove_loading_item", "rendered">>
  /\ loading = 0

\* C2: after an ingestion there is one Segment per arc, and the colours of
\* Segment i are those of the routes that refer to arc i in either sign.
C2_SegmentColorsEitherSign ==
  Ingested =>
    /\ Len(LineSegments) = Len(lastTopo.arcs)
    /\ \A s \in 1..Len(LineSegments) :
         SeqToSet(LineSegments[s].colors) =
           { lastTopo.geometries[r].stroke :
               r \in { r \in 1..Len(lastTopo.geometries) :
                         \E k \in 1..Len(lastTopo.geometries[r].arcs) :
                            ArcId(lastTopo.geometries[r].arcs[k]) = s - 1 } }

\* C3: after an ingestion no two Connections have the same colour, from and
\* to, and the Connections are exactly the distinct ones derived from the
\* adjacent pairs of the routes.
C3_ConnectionsDeduplicated ==
  Ingested =>
    /\ \A m, n \in 1..Len(LineConnections) :
         m # n => LineConnections[m] # LineConnections[n]
    /\ SeqToSet(LineConnections) = DerivedConnections(lastTopo)

\* a topology in which one route takes the same transition twice was ingested
C3_RepeatedTransitionIngested ==
  /\ Ingested
  /\ \E a, b \in AdjacentPairs(lastTopo) :
        a # b /\ a[1] = b[1] /\ PairConnection(lastTopo, a) = PairConnection(lastTopo, b)
  /\ Len(LineConnections) >= 1

\* C4: every adjacent pair (prev, cur) of a route yields the Connection
\* from (id(prev), bottom if prev >= 0 else top) to (id(cur), top if cur >= 0
\* else bottom) in the route's colour, and nothing else is a Connection; the
\* single route [0, 1] yields the one Connection (0, bottom) -> (1, top).
C4_DirectionalRule ==
  Ingested =>
    /\ \A r \in 1..Len(lastTopo.geometries) :
         \A k \in 2..Len(lastTopo.geometries[r].arcs) :
            LET prev == lastTopo.geometries[r].arcs[k - 1]
                cur  == lastTopo.geometries[r].arcs[k]
            IN  \E n \in 1..Len(LineConnections) :
                   /\ LineConnections[n].color = lastTopo.geometries[r].stroke
                   /\ LineConnections[n].from = <<ArcId(prev), ExitTag(prev)>>
                   /\ LineConnections[n].to = <<ArcId(cur), EntryTag(cur)>>
    /\ \A n \in 1..Len(LineConnections) :
         \E r \in 1..Len(lastTopo.geometries) :
            \E k \in 2..Len(lastTopo.geometries[r].arcs) :
               LineConnections[n] = PairConnection(lastTopo, <<r, k>>)
    /\ \A c \in Palette :
         lastTopo.geometries = << [arcs |-> <<0, 1>>, stroke |-> c] >> =>
           LineConnections = << [from |-> <<0, "bottom">>, to |-> <<1, "top">>, color |-> c] >>

\* the route [0, 1] alone was ingested, and a route with a reversed reference
C4_ForwardPairIngested ==
  /\ Ingested
  /\ lastTopo.geometries = << [arcs |-> <<0, 1>>, stroke |-> Red] >>
  /\ LineConnections = << [from |-> <<0, "bottom">>, to |-> <<1, "top">>, color |-> Red] >>

\* the luminance of the claim, from the three channels, in units of 10^-7
TrueLuminance(a) ==
  Weighted(2126, Pow22(16 * a[1] + a[2])) +
  Weighted(7152, Pow22(16 * a[3] + a[4])) +
  Weighted(722,  Pow22(16 * a[5] + a[6]))

StartFarther(geometry) ==
  geometry[1][1] * geometry[1][1] + geometry[1][2] * geometry[1][2] >
  geometry[Len(geometry)][1] * geometry[Len(geometry)][1] +
  geometry[Len(geometry)][2] * geometry[Len(geometry)][2]

OffsetIndex(id, color) ==
  MapGet(ColourSegmentsEndpoints, EndpointKey(id, color, "top", "none")).index

\* C5: the colours of a rendered segment get the offset indices 0..n-1 in
\* ascending order of luminance, reversed iff the segment starts farther
\* from the origin than it ends.
C5_LuminanceOrder ==
  Rendered =>
    \A s \in 1..Len(LineSegments) :
       ~Outside(lastRender.viewbox, LineSegments[s].geometry) =>
         LET colors == SeqToSet(LineSegments[s].colors)
         IN  /\ { OffsetIndex(s - 1, c) : c \in colors } = 0..(Cardinality(colors) - 1)
             /\ \A c1, c2 \in colors :
                  OffsetIndex(s - 1, c1) < OffsetIndex(s - 1, c2) =>
                    IF StartFarther(LineSegments[s].geometry)
                    THEN TrueLuminance(c1) >= TrueLuminance(c2)
                    ELSE TrueLuminance(c1) <= TrueLuminance(c2)

\* the six registry keys of a connection, and the chain of their values
Complete(c) ==
  \A v \in {"none", "buffer", "invasive"} :
     /\ MapHas(ColourSegmentsEndpoints, <<c.from[1], c.color, c.from[2], v>>)
     /\ MapHas(ColourSegmentsEndpoints, <<c.to[1], c.color, c.to[2], v>>)
Chain(c) ==
  << MapGet(ColourSegmentsEndpoints, <<c.from[1], c.color, c.from[2], "none">>),
     MapGet(ColourSegmentsEndpoints, <<c.from[1], c.color, c.from[2], "buffer">>),
     MapGet(ColourSegmentsEndpoints, <<c.from[1], c.color, c.from[2], "invasive">>),
     MapGet(ColourSegmentsEndpoints, <<c.to[1], c.color, c.to[2], "invasive">>),
     MapGet(ColourSegmentsEndpoints, <<c.to[1], c.color, c.to[2], "buffer">>),
     MapGet(ColourSegmentsEndpoints, <<c.to[1], c.color, c.to[2], "none">>) >>
StitchedLine(c) ==
  [kind |-> "connection", coords |-> Chain(c),
   smoothed |-> lastRender.spacing * 100 < 11 * SpacingScale]
ConnectionLines(color) ==
  { k \in 1..Len(LinesOf(color)) : LinesOf(color)[k].kind = "connection" }

\* C6: a Connection with its six registry entries adds exactly one polyline,
\* the chain from.actual, from.buffer, from.invasive, to.invasive, to.buffer,
\* to.actual (smoothed iff spacing < 0.11), to its colour; a Connection lacking
\* any of the six adds nothing.  Two rendered segments joined by the one
\* connection, in a colour on both, give that colour exactly 3 polylines.
C6_ConnectionAllOrNothing ==
  Rendered =>
    /\ \A n \in 1..Len(LineConnections) :
         Complete(LineConnections[n]) =>
           Cardinality({ k \in 1..Len(LinesOf(LineConnections[n].color)) :
                           LinesOf(LineConnections[n].color)[k] = StitchedLine(LineConnections[n]) }) = 1
    /\ \A color \in Palette :
         Cardinality(ConnectionLines(color)) =
           Cardinality({ n \in 1..Len(LineConnections) :
                           LineConnections[n].color = color /\ Complete(LineConnections[n]) })
    /\ \A line \in AllLines : ~Includes(line.coords, Undefined)
    /\ (/\ Len(LineSegments) = 2
        /\ Len(LineConnections) = 1
        /\ { LineConnections[1].from[1], LineConnections[1].to[1] } = {0, 1}
        /\ \A s \in 1..2 : /\ ~Outside(lastRender.viewbox, LineSegments[s].geometry)
                           /\ Includes(LineSegments[s].colors, LineConnections[1].color))
       => Len(LinesOf(LineConnections[1].color)) = 3

\* a render in which one connection was stitched and another was dropped
C6_StitchedAndDropped ==
  /\ Rendered
  /\ \E n \in 1..Len(LineConnections) :
        /\ Complete(LineConnections[n])
        /\ \E k \in ConnectionLines(LineConnections[n].color) :
              LinesOf(LineConnections[n].color)[k] = StitchedLine(LineConnections[n])
  /\ \E n \in 1..Len(LineConnections) : ~Complete(LineConnections[n])

\* C7: a segment outside the viewport has no registry entry and no polyline in
\* any colour; a Connection from or to such a segment adds no polyline; a
\* colour carried only by such segments has no feature in the output.
C7_ViewportCulling ==
  Rendered =>
    /\ \A s \in 1..Len(LineSegments) :
         FilteredOut(s - 1) =>
           /\ \A e \in SeqToSet(ColourSegmentsEndpoints) : e.key[1] # s - 1
           /\ \A line \in AllLines : \A p \in SeqToSet(line.coords) : p.segment # s - 1
    /\ \A n \in 1..Len(LineConnections) :
         (FilteredOut(LineConnections[n].from[1]) \/ FilteredOut(LineConnections[n].to[1])) =>
           \A k \in ConnectionLines(LineConnections[n].color) :
              LET line == LinesOf(LineConnections[n].color)[k]
              IN  ~(/\ line.coords[1].segment = LineConnections[n].from[1]
                    /\ line.coords[6].segment = LineConnections[n].to[1])
    /\ \A color \in Palette :
         (\A s \in 1..Len(LineSegments) :
             Includes(LineSegments[s].colors, color) => FilteredOut(s - 1)) =>
           \A f \in SeqToSet(FeatureCollection(RenderedColourLine)) : f.id # color

\* a render with a coloured segment outside the viewport, joined by a
\* connection to a segment inside it that was drawn
C7_SegmentCulled ==
  /\ Rendered
  /\ \E n \in 1..Len(LineConnections) :
        /\ FilteredOut(LineConnections[n].from[1])
        /\ Includes(LineSegments[LineConnections[n].from[1] + 1].colors, LineConnections[n].color)
        /\ LineConnections[n].to[1] + 1 \in 1..Len(LineSegments)
        /\ ~FilteredOut(LineConnections[n].to[1])
        /\ Len(LinesOf(LineConnections[n].color)) >= 1

\* C8: no handler ends in a fault: every init reaches finished_init and every
\* request_render reaches rendered.
C8_NoFault ==
  /\ ~faulted
  /\ lastMsg = "init" => outbox # <<>> /\ outbox[Len(outbox)] = "finished_init"
  /\ lastMsg = "request_render" => outbox # <<>> /\ outbox[Len(outbox)] = "rendered"

\* a Segment without the order of its colours
SegmentView(segs) ==
  { [id |-> s - 1, geometry |-> segs[s].geometry, top |-> segs[s].top,
     bottom |-> segs[s].bottom, colors |-> SeqToSet(segs[s].colors)] : s \in 1..Len(segs) }

\* C9: after any sequence of messages the Segments and Connections are those
\* of the most recent init's topology alone: one Segment per arc of its table,
\* with the colours ingestion derives, and its distinct derived Connections.
C9_LatestTopologyOnly ==
  inited =>
    /\ SegmentView(LineSegments) = SegmentView(ExtractLineSegments(lastTopo))
    /\ SeqToSet(LineConnections) = DerivedConnections(lastTopo)
    /\ Len(LineConnections) = Cardinality(DerivedConnections(lastTopo))

\* C10: a request_render leaves every Segment, the order of its colours
\* included, and the Connection list as the last init produced them.
C10_RenderKeepsTopology ==
  (inited /\ ~extractLineConnections(lastTopo).threw) =>
    /\ LineSegments = ExtractLineSegments(lastTopo)
    /\ LineConnections = extractLineConnections(lastTopo).value

====
